---- MODULE Spec2Model ----
(***************************************************************************)
(* rpicam_scope: the Microscope controller (microscope_control.py) driven  *)
(* by one of its two PyQt5 front ends (microscope/controlGUI.py and        *)
(* gui_qt.py), or called directly as a library.                            *)
(*                                                                         *)
(* A Python string is a sequence of tokens (a token is one character where *)
(* the code parses characters, a whole word elsewhere); string             *)
(* concatenation is \o.  A float is an integer number of hundredths.       *)
(* A command is its argv: a sequence of strings.                           *)
(***************************************************************************)
EXTENDS Integers, Sequences, FiniteSets, TLC

VARIABLES
    gui,               \* which caller drives the controller
    pi_model,          \* Microscope.pi_model
    preview_process,   \* Microscope.preview_process: 0 (None) or the pid of the Popen handle
    preview_running,   \* ControlGUI.preview_running
    mode_combo,        \* ControlGUI.mode_combo.currentText()
    resolution_combo,  \* ControlGUI.resolution_combo.currentText()
    framerate_edit,    \* ControlGUI.framerate_edit.text()
    duration_spin,     \* controlGUI.py: <<hours, minutes, seconds>> spin boxes
    duration_edit,     \* gui_qt.py: duration_edit.text()
    procs,             \* the child processes not yet reaped: [pid, cmd, state]
    pc,                \* "idle", "tool_wait" while subprocess.run blocks the handler,
                       \* "aborted" once the application has ended
    call,              \* the capture method blocked in subprocess.run
    launched,          \* argv of every process spawned by the current/last handler
    result             \* how the last handler ended

vars == <<gui, pi_model, preview_process, preview_running, mode_combo,
          resolution_combo, framerate_edit, duration_spin, duration_edit,
          procs, pc, call, launched, result>>

\* ------------------------------------------------------------------ bounds

\* Most child processes alive or unreaped at once (previews, capture tool, merges).
MaxProcs == 2

\* ------------------------------------------------------------- Python strings

Digits == <<"0", "1", "2", "3", "4", "5", "6", "7", "8", "9">>

IsDigit(c) == \E i \in 1..10 : Digits[i] = c

DigitVal(c) == (CHOOSE i \in 1..10 : Digits[i] = c) - 1

\* str.split(sep): the parts of s between the occurrences of the token sep.
RECURSIVE Split(_, _)
Split(s, sep) ==
    IF \A i \in 1..Len(s) : s[i] # sep
    THEN <<s>>
    ELSE LET k == CHOOSE i \in 1..Len(s) :
                      s[i] = sep /\ \A j \in 1..(i - 1) : s[j] # sep
         IN  <<SubSeq(s, 1, k - 1)>> \o Split(SubSeq(s, k + 1, Len(s)), sep)

\* str.replace(old, new) for a one-token old.
Replace(s, old, new) == [i \in 1..Len(s) |-> IF s[i] = old THEN new ELSE s[i]]

\* `needle in hay` for strings.
Contains(hay, needle) ==
    \E i \in 0..(Len(hay) - Len(needle)) :
        SubSeq(hay, i + 1, i + Len(needle)) = needle

\* Whether int(s) succeeds (digits only; no sign, blank or underscore is entered).
IsInt(s) == Len(s) > 0 /\ \A i \in 1..Len(s) : IsDigit(s[i])

\* int(s), for IsInt(s).
RECURSIVE IntOf(_)
IntOf(s) ==
    IF Len(s) = 0 THEN 0
    ELSE 10 * IntOf(SubSeq(s, 1, Len(s) - 1)) + DigitVal(s[Len(s)])

\* str(n) for an integer n >= 0.
RECURSIVE Str(_)
Str(n) ==
    IF n < 10 THEN <<Digits[n + 1]>>
    ELSE Str(n \div 10) \o <<Digits[(n % 10) + 1]>>

\* f'{n:02}'
Format02(n) == IF n < 10 THEN <<"0">> \o Str(n) ELSE Str(n)

\* Whether float(s) succeeds: digits, with at most one "." that has digits on a side.
IsFloat(s) ==
    LET parts == Split(s, ".")
    IN  /\ Len(parts) \in {1, 2}
        /\ \A i \in 1..Len(parts) : \A j \in 1..Len(parts[i]) : IsDigit(parts[i][j])
        /\ \E i \in 1..Len(parts) : Len(parts[i]) > 0
        /\ Len(parts) = 2 => Len(parts[2]) <= 2

\* float(s) in hundredths, for IsFloat(s) (at most two decimals are entered).
FloatOf(s) ==
    LET parts == Split(s, ".")
        frac  == IF Len(parts) = 2 THEN parts[2] ELSE <<>>
    IN  100 * IntOf(parts[1])
          + (IF Len(frac) = 0 THEN 0
             ELSE IF Len(frac) = 1 THEN 10 * IntOf(frac)
             ELSE IntOf(frac))

\* str(x) for a float x given in hundredths: '120.05', '10.0'.
StrFloat(h) ==
    Str(h \div 100) \o <<".">> \o
        (IF h % 10 = 0 THEN Str((h % 100) \div 10)
         ELSE Str((h % 100) \div 10) \o Str(h % 10))

\* os.path.join(a, b)
PathJoin(a, b) == a \o <<"/">> \o b

\* ------------------------------------------------------------- Microscope data

valid_resolutions ==
    (<<"1">> :> [resolution |-> <<"1332", "x", "990">>,  max_fps |-> 12005]) @@
    (<<"2">> :> [resolution |-> <<"2028", "x", "1080">>, max_fps |-> 5003])  @@
    (<<"3">> :> [resolution |-> <<"2028", "x", "1520">>, max_fps |-> 4001])  @@
    (<<"4">> :> [resolution |-> <<"4056", "x", "3040">>, max_fps |-> 1000])

\* valid_resolutions.get(key) is None
IsNone(key) == key \notin DOMAIN valid_resolutions

Width(res_details)  == Split(res_details.resolution, "x")[1]
Height(res_details) == Split(res_details.resolution, "x")[2]

desktop_path == <<"~", "/", "Desktop">>

\* What /proc/device-tree/model may hold; <<"Unknown">> when it cannot be read.
get_pi_model ==
    { <<"Raspberry Pi ", "4", " Model B Rev 1.4">>,
      <<"Raspberry Pi ", "5", " Model B Rev 1.0">>,
      <<"Raspberry Pi ", "3", " Model B Plus Rev 1.3">>,
      <<"Unknown">> }

RaspberryPi4 == <<"Raspberry Pi ", "4">>
RaspberryPi5 == <<"Raspberry Pi ", "5">>

\* ------------------------------------------------------------- child processes

Alive(p) == p.state = "running"

Tool(p) == p.cmd[1]

Pids(P) == {p.pid : p \in P}

\* The pid the operating system gives the next child: one no unreaped child holds.
NewPid(P) == CHOOSE n \in 1..(Cardinality(P) + 1) : n \notin Pids(P)

\* subprocess.Popen(cmd): the child is running and in the process table.
Popen(cmd, P) == [pid |-> NewPid(P), cmd |-> cmd, state |-> "running"]

NoError == "none"

\* ------------------------------------------------------------- Microscope

\* Microscope.stop_preview as written without the wait(): the handle is dropped while
\* the signalled process may still be running.
stop_preview_nowait(h, P) ==
    [preview_process |-> 0, procs |-> P,
     signals |-> Cardinality({p \in P : p.pid = h /\ Alive(p)})]

\* Microscope.stop_preview as written without clearing the handle.
stop_preview_keep(h, P) ==
    [preview_process |-> h, procs |-> {p \in P : p.pid # h},
     signals |-> Cardinality({p \in P : p.pid = h /\ Alive(p)})]

\* Microscope.stop_preview().  With a handle: terminate() signals the process if it
\* has not exited yet, wait() returns once it has exited and reaps it, and the
\* handle is cleared.  Without a handle nothing happens.
stop_preview(h, P) ==
    IF h # 0
    THEN [preview_process |-> 0,
          procs           |-> {p \in P : p.pid # h},
          signals         |-> Cardinality({p \in P : p.pid = h /\ Alive(p)})]
    ELSE [preview_process |-> h, procs |-> P, signals |-> 0]

start_preview_cmd(res_details) ==
    << <<"rpicam-hello">>, <<"--timeout">>, <<"0">>,
       <<"--width">>, Width(res_details), <<"--height">>, Height(res_details) >>

\* Microscope.start_preview spawning before it looks the resolution up.
start_preview_unchecked(res_key, spawned, h, P) ==
    LET cmd == << <<"rpicam-hello">>, <<"--timeout">>, <<"0">> >>
    IN  [error |-> IF IsNone(res_key) THEN "TypeError" ELSE NoError,
         preview_process |-> NewPid(P),
         procs |-> P \cup {Popen(cmd, P)},
         launched |-> <<cmd>>]

\* Microscope.start_preview spawning the preview without recording its handle.
start_preview_lost(res_key, spawned, h, P) ==
    IF IsNone(res_key)
    THEN [error |-> "TypeError", preview_process |-> h, procs |-> P, launched |-> <<>>]
    ELSE IF ~spawned
    THEN [error |-> "FileNotFoundError", preview_process |-> h, procs |-> P,
          launched |-> <<>>]
    ELSE LET cmd == start_preview_cmd(valid_resolutions[res_key])
         IN  [error |-> NoError, preview_process |-> h,
              procs |-> P \cup {Popen(cmd, P)}, launched |-> <<cmd>>]

\* Microscope.start_preview(res_key).  An unknown key makes res_details None and the
\* subscript raises TypeError before Popen; Popen raises when the tool cannot be
\* spawned; otherwise the new handle replaces whatever handle was recorded.
start_preview(res_key, spawned, h, P) ==
    IF IsNone(res_key)
    THEN [error |-> "TypeError", preview_process |-> h, procs |-> P, launched |-> <<>>]
    ELSE IF ~spawned
    THEN [error |-> "FileNotFoundError", preview_process |-> h, procs |-> P,
          launched |-> <<>>]
    ELSE LET cmd == start_preview_cmd(valid_resolutions[res_key])
         IN  [error |-> NoError,
              preview_process |-> NewPid(P),
              procs |-> P \cup {Popen(cmd, P)},
              launched |-> <<cmd>>]

\* A capture method up to its subprocess.run: the error raised before the spawn, or
\* the command to run and the output path.
Raises(e) == [error |-> e, cmd |-> <<>>, output_path |-> <<>>]

\* Microscope.capture_image(resolution, filename), up to subprocess.run.
capture_image(resolution, filename) ==
    IF IsNone(resolution) THEN Raises("TypeError")
    ELSE LET res_details == valid_resolutions[resolution]
             output_path == filename \o <<".jpg">>
         IN  [error |-> NoError,
              cmd |-> << <<"rpicam-still">>, <<"-o">>, output_path,
                         <<"--width">>, Width(res_details),
                         <<"--height">>, Height(res_details) >>,
              output_path |-> output_path]

\* Microscope.capture_timelapse(resolution, interval, duration, filename), up to
\* subprocess.run.
capture_timelapse(resolution, interval, duration, filename) ==
    IF IsNone(resolution) THEN Raises("TypeError")
    ELSE LET res_details == valid_resolutions[resolution]
             output_path == filename \o <<"_%04d.jpg">>
         IN  [error |-> NoError,
              cmd |-> << <<"rpicam-still">>, <<"-t">>, Str(duration * 1000),
                         <<"--timelapse">>, Str(interval * 1000),
                         <<"-o">>, output_path,
                         <<"--width">>, Width(res_details),
                         <<"--height">>, Height(res_details) >>,
              output_path |-> output_path]

\* Microscope.get_video_extension()
get_video_extension(model) ==
    IF ~Contains(model, RaspberryPi5) THEN <<".h264">> ELSE <<".mp4">>

\* Microscope.get_video_command(resolution, framerate, duration, output_path);
\* framerate is already a string here (str(framerate)).  On a model that is neither
\* generation no branch returns: the result is None, written <<>>.
get_video_command(model, resolution, framerate, duration, output_path) ==
    IF Contains(model, RaspberryPi4)
    THEN << <<"rpicam-vid">>, <<"--framerate">>, framerate,
            <<"--width">>, Split(resolution, "x")[1],
            <<"--height">>, Split(resolution, "x")[2],
            <<"--save-pts">>, PathJoin(desktop_path, <<"timestamps.txt">>),
            <<"-o">>, output_path,
            <<"-t">>, Str(duration) \o <<"s">> >>
    ELSE IF Contains(model, RaspberryPi5)
    THEN << <<"rpicam-vid">>, <<"-t">>, Str(duration) \o <<"s">>,
            <<"-o">>, output_path,
            <<"--width">>, Split(resolution, "x")[1],
            <<"--height">>, Split(resolution, "x")[2],
            <<"--framerate">>, framerate >>
    ELSE <<>>

\* The framerate record_video uses: framerate is [none, text]; the text is kept when
\* float(text) <= max_fps, else max_fps.  For a text float() accepts.
ClampFramerate(framerate, max_fps) ==
    IF framerate.none \/ FloatOf(framerate.text) > max_fps
    THEN StrFloat(max_fps)
    ELSE framerate.text

\* Microscope.record_video(resolution, framerate, duration, filename), up to
\* subprocess.run.  float() of a non-numeric text raises ValueError;
\* subprocess.run(None) raises TypeError without spawning anything.
record_video(model, resolution, framerate, duration, filename) ==
    IF IsNone(resolution) THEN Raises("TypeError")
    ELSE IF ~framerate.none /\ ~IsFloat(framerate.text) THEN Raises("ValueError")
    ELSE LET res_details == valid_resolutions[resolution]
             fps         == ClampFramerate(framerate, res_details.max_fps)
             output_path == filename \o get_video_extension(model)
             command     == get_video_command(model, res_details.resolution, fps,
                                              duration, output_path)
         IN  IF command = <<>> THEN Raises("TypeError")
             ELSE [error |-> NoError, cmd |-> command, output_path |-> output_path]

mkvmerge_command(input_h264_path, output_mkv_path, timestamps_path) ==
    << <<"mkvmerge">>, <<"-o">>, output_mkv_path,
       <<"--timecodes">>, <<"0:">> \o timestamps_path, input_h264_path >>

\* Microscope.convert_to_mkv run with subprocess.run instead of Popen: the merge has
\* exited and is reaped when the method returns.
convert_to_mkv_wait(input_h264_path, output_mkv_path, timestamps_path, spawned, P) ==
    IF ~spawned
    THEN [error |-> "FileNotFoundError", procs |-> P, launched |-> <<>>]
    ELSE [error |-> NoError, procs |-> P,
          launched |-> <<mkvmerge_command(input_h264_path, output_mkv_path,
                                          timestamps_path)>>]

\* Microscope.convert_to_mkv(input_h264_path, output_mkv_path, timestamps_path):
\* Popen starts mkvmerge and returns at once; nothing waits for it.
convert_to_mkv(input_h264_path, output_mkv_path, timestamps_path, spawned, P) ==
    IF ~spawned
    THEN [error |-> "FileNotFoundError", procs |-> P, launched |-> <<>>]
    ELSE LET cmd == mkvmerge_command(input_h264_path, output_mkv_path, timestamps_path)
         IN  [error |-> NoError, procs |-> P \cup {Popen(cmd, P)}, launched |-> <<cmd>>]

\* A capture method after its subprocess.run returned (whatever the exit status:
\* run is called without check=True).  image: the print.  timelapse: the print
\* names save_folder, which is not defined there: NameError.  video: on a
\* Raspberry Pi 4 the merge, else the print.
after_run(model, mode, output_path, spawned, P) ==
    IF mode = "timelapse"
    THEN [error |-> "NameError", procs |-> P, launched |-> <<>>]
    ELSE IF mode = "video" /\ Contains(model, RaspberryPi4)
    THEN convert_to_mkv(output_path, Replace(output_path, ".h264", ".mkv"),
                        PathJoin(desktop_path, <<"timestamps.txt">>), spawned, P)
    ELSE [error |-> NoError, procs |-> P, launched |-> <<>>]

\* ------------------------------------------------------------- front ends

GUIs == {"controlGUI", "gui_qt"}

\* The items of resolution_combo (the same in both front ends).
ResolutionItems ==
    { <<"1", ":", " 1332x990 - Max 120 FPS">>,
      <<"2", ":", " 2028x1080 - Max 50 FPS">>,
      <<"3", ":", " 2028x1520 - Max 40 FPS">>,
      <<"4", ":", " 4056x3040 - Max 10 FPS">> }

\* The items of mode_combo.
ModeItems(g) == IF g = "gui_qt" THEN {"image", "video"}
                ELSE {"image", "video", "timelapse"}

\* Texts typed into framerate_edit: empty, at or below every max_fps, above some
\* max_fps, not a number.
FramerateTexts == { <<>>, <<"1", "0">>, <<"6", "0", ".", "5">>, <<"f", "p", "s">> }

\* Values of the hours, minutes and seconds spin boxes (controlGUI.py).
DurationSpins == { <<0, 0, 10>>, <<1, 2, 3>> }

\* Texts typed into duration_edit (gui_qt.py).
DurationTexts == { <<>>, <<"5">>, <<"1", "x">> }

DefaultDuration == 10

IntervalSpin == 1

filename_edit == <<"shot">>

save_folder == desktop_path

\* parse_duration's None
NoDuration == -1

\* ControlGUI.parse_duration(duration_text) (controlGUI.py)
parse_duration(duration_text) ==
    LET parts == Split(duration_text, ":")
    IN  IF Len(parts) = 3
        THEN IF \A i \in 1..3 : IsInt(parts[i])
             THEN IntOf(parts[1]) * 3600 + IntOf(parts[2]) * 60 + IntOf(parts[3])
             ELSE NoDuration
        ELSE NoDuration

\* f'{hours:02}:{minutes:02}:{seconds:02}'
duration_str(spin) ==
    Format02(spin[1]) \o <<":">> \o Format02(spin[2]) \o <<":">> \o Format02(spin[3])

BadRequest(e) ==
    [error |-> e, mode |-> "image", resolution |-> <<>>,
     framerate |-> [none |-> TRUE, text |-> <<>>], duration |-> 0,
     filename |-> <<>>]

\* ControlGUI.capture between its first stop_preview and the dispatch: the form is
\* read into the arguments of the capture method, or an error is raised.
capture_request(g, mode, resolution_text, framerate_text, spin, duration_text) ==
    IF g = "controlGUI"
    THEN LET duration == parse_duration(duration_str(spin))
         IN  IF duration = NoDuration THEN BadRequest("ValueError")
             ELSE [error |-> NoError, mode |-> mode,
                   resolution |-> Split(resolution_text, ":")[1],
                   framerate |-> [none |-> framerate_text = <<>>, text |-> framerate_text],
                   duration |-> duration,
                   filename |-> PathJoin(save_folder, filename_edit)]
    ELSE IF duration_text # <<>> /\ ~IsInt(duration_text) THEN BadRequest("ValueError")
         ELSE [error |-> NoError, mode |-> mode,
               resolution |-> Split(resolution_text, ":")[1],
               framerate |-> [none |-> FALSE,
                              text |-> IF framerate_text # <<>> THEN framerate_text
                                       ELSE <<"d", "e", "f", "a", "u", "l", "t">>],
               duration |-> IF duration_text # <<>> THEN IntOf(duration_text)
                            ELSE DefaultDuration,
               filename |-> filename_edit]

\* The dispatch on the mode, up to the method's subprocess.run.
dispatch(model, req) ==
    IF req.mode = "video"
    THEN record_video(model, req.resolution, req.framerate, req.duration, req.filename)
    ELSE IF req.mode = "timelapse"
    THEN capture_timelapse(req.resolution, IntervalSpin, req.duration, req.filename)
    ELSE capture_image(req.resolution, req.filename)

\* How an exception raised inside capture leaves the handler: controlGUI.py catches
\* it and shows a dialog, gui_qt.py (and a script) lets it propagate.
Report(g, handler, error, exit, signals) ==
    [handler |-> handler, error |-> error, exit |-> exit, signals |-> signals,
     dialog  |-> IF g # "controlGUI" \/ handler # "capture" \/ error = NoError
                 THEN "none"
                 ELSE IF error = "ValueError" THEN "warning" ELSE "critical",
     raised  |-> error # NoError /\ (g # "controlGUI" \/ handler # "capture")]

NoCall == [mode |-> "none", output_path |-> <<>>, pid |-> 0]

\* ControlGUI.capture's first statements dropped: the preview is left as it is.
capture_stop_skipped(h, P) == [preview_process |-> h, procs |-> P, signals |-> 0]

\* ControlGUI.capture's first statements: self.microscope.stop_preview().
capture_stop(h, P) == stop_preview(h, P)

\* ControlGUI.set_preview(): start_preview with the selected key, then the flag.
set_preview(resolution_text, spawned, h, P, running) ==
    LET r == start_preview(Split(resolution_text, ":")[1], spawned, h, P)
    IN  [error |-> r.error, preview_process |-> r.preview_process,
         procs |-> r.procs, launched |-> r.launched,
         preview_running |-> IF r.error = NoError THEN TRUE ELSE running]

\* ------------------------------------------------------------- state machine

form == <<mode_combo, resolution_combo, framerate_edit, duration_spin, duration_edit>>

InitCommon ==
    /\ pi_model \in get_pi_model
    /\ preview_process = 0
    /\ preview_running = FALSE
    /\ mode_combo = "image"
    /\ resolution_combo = <<"1", ":", " 1332x990 - Max 120 FPS">>
    /\ framerate_edit = <<>>
    /\ duration_spin = <<0, 0, 10>>
    /\ duration_edit = <<>>
    /\ procs = {}
    /\ pc = "idle"
    /\ call = NoCall
    /\ launched = <<>>
    /\ result = Report("none", "none", NoError, -1, 0)

Init == gui \in GUIs /\ InitCommon

\* The user picks another mode.
SetMode(m) ==
    /\ pc = "idle" /\ gui \in GUIs
    /\ m \in ModeItems(gui) /\ m # mode_combo
    /\ mode_combo' = m
    /\ UNCHANGED <<gui, pi_model, preview_process, preview_running, resolution_combo,
                   framerate_edit, duration_spin, duration_edit, procs, pc, call,
                   launched, result>>

\* The user types a framerate.
SetFramerate(t) ==
    /\ pc = "idle" /\ gui \in GUIs
    /\ t # framerate_edit
    /\ framerate_edit' = t
    /\ UNCHANGED <<gui, pi_model, preview_process, preview_running, mode_combo,
                   resolution_combo, duration_spin, duration_edit, procs, pc, call,
                   launched, result>>

\* The user sets the duration: spin boxes in controlGUI.py, a text in gui_qt.py.
SetDuration ==
    /\ pc = "idle" /\ gui \in GUIs
    /\ IF gui = "controlGUI"
       THEN /\ \E spin \in DurationSpins :
                  spin # duration_spin /\ duration_spin' = spin
            /\ UNCHANGED duration_edit
       ELSE /\ \E t \in DurationTexts : t # duration_edit /\ duration_edit' = t
            /\ UNCHANGED duration_spin
    /\ UNCHANGED <<gui, pi_model, preview_process, preview_running, mode_combo,
                   resolution_combo, framerate_edit, procs, pc, call, launched, result>>

\* ControlGUI.toggle_preview()
toggle_preview(spawned) ==
    /\ pc = "idle" /\ gui \in GUIs
    /\ IF preview_running
       THEN \E s \in {stop_preview(preview_process, procs)} :
                /\ preview_process' = s.preview_process
                /\ procs' = s.procs
                /\ preview_running' = FALSE
                /\ launched' = <<>>
                /\ result' = Report(gui, "toggle_preview", NoError, -1, s.signals)
       ELSE \E r \in {set_preview(resolution_combo, spawned, preview_process, procs,
                                  preview_running)} :
                /\ Cardinality(procs) < MaxProcs
                /\ preview_process' = r.preview_process
                /\ procs' = r.procs
                /\ preview_running' = r.preview_running
                /\ launched' = r.launched
                /\ result' = Report(gui, "toggle_preview", r.error, -1, 0)
    /\ UNCHANGED <<gui, pi_model, form, pc, call>>

\* ControlGUI.resolution_changed(), run when the user picks another resolution.
resolution_changed(item, spawned) ==
    /\ pc = "idle" /\ gui \in GUIs
    /\ item \in ResolutionItems /\ item # resolution_combo
    /\ resolution_combo' = item
    /\ IF preview_running
       THEN \E s \in {stop_preview(preview_process, procs)} :
            \E r \in {set_preview(item, spawned, s.preview_process, s.procs,
                                  preview_running)} :
                /\ Cardinality(s.procs) < MaxProcs
                /\ preview_process' = r.preview_process
                /\ procs' = r.procs
                /\ preview_running' = r.preview_running
                /\ launched' = r.launched
                /\ result' = Report(gui, "resolution_changed", r.error, -1, s.signals)
       ELSE /\ launched' = <<>>
            /\ result' = Report(gui, "resolution_changed", NoError, -1, 0)
            /\ UNCHANGED <<preview_process, procs, preview_running>>
    /\ UNCHANGED <<gui, pi_model, mode_combo, framerate_edit, duration_spin,
                   duration_edit, pc, call>>

\* A capture method entered with process table P: it raises before or at the spawn
\* and the handler ends, or the tool runs and the handler blocks in subprocess.run.
RunMethod(m, mode, P, spawned, signals) ==
    IF m.error # NoError \/ ~spawned
    THEN /\ pc' = "idle"
         /\ call' = NoCall
         /\ procs' = P
         /\ launched' = <<>>
         /\ result' = Report(gui, "capture",
                             IF m.error # NoError THEN m.error ELSE "FileNotFoundError",
                             -1, signals)
    ELSE /\ pc' = "tool_wait"
         /\ call' = [mode |-> mode, output_path |-> m.output_path, pid |-> NewPid(P)]
         /\ procs' = P \cup {Popen(m.cmd, P)}
         /\ launched' = <<m.cmd>>
         /\ result' = Report(gui, "capture", NoError, -1, signals)

\* ControlGUI.capture(), up to the point where subprocess.run blocks (or to its end
\* when nothing is run).
capture(spawned) ==
    /\ pc = "idle" /\ gui \in GUIs
    /\ \E s \in {capture_stop(preview_process, procs)} :
       \E req \in {capture_request(gui, mode_combo, resolution_combo, framerate_edit,
                                   duration_spin, duration_edit)} :
       \E m \in {IF req.error # NoError THEN Raises(req.error)
                 ELSE dispatch(pi_model, req)} :
           /\ Cardinality(s.procs) < MaxProcs
           /\ preview_process' = s.preview_process
           /\ preview_running' = FALSE
           /\ RunMethod(m, req.mode, s.procs, spawned, s.signals)
    /\ UNCHANGED <<gui, pi_model, form>>

\* subprocess.run returns with the tool's exit status, the capture method finishes,
\* and so does the handler: gui_qt.py ends with a second stop_preview().
capture_return(code, spawned) ==
    /\ pc = "tool_wait"
    /\ \E a \in {after_run(pi_model, call.mode, call.output_path, spawned,
                           {p \in procs : p.pid # call.pid})} :
       \E t \in {IF gui = "gui_qt" /\ a.error = NoError
                 THEN stop_preview(preview_process, a.procs)
                 ELSE [preview_process |-> preview_process, procs |-> a.procs,
                       signals |-> 0]} :
           /\ procs' = t.procs
           /\ preview_process' = t.preview_process
           /\ launched' = launched \o a.launched
           /\ result' = Report(gui, "capture", a.error, code,
                               result.signals + t.signals)
    /\ pc' = "idle"
    /\ call' = NoCall
    /\ UNCHANGED <<gui, pi_model, preview_running, form>>

\* A detached mkvmerge finishes.
merge_exits ==
    /\ \E p \in procs : Tool(p) = <<"mkvmerge">> /\ procs' = procs \ {p}
    /\ UNCHANGED <<gui, pi_model, preview_process, preview_running, form, pc, call,
                   launched, result>>

\* A preview process exits by itself (the camera fails, its window is closed).  One
\* the controller holds a handle to stays unreaped until it is waited for.
preview_exits ==
    /\ \E p \in procs :
          /\ Tool(p) = <<"rpicam-hello">> /\ Alive(p)
          /\ procs' = IF p.pid = preview_process
                      THEN (procs \ {p}) \cup {[p EXCEPT !.state = "zombie"]}
                      ELSE procs \ {p}
    /\ UNCHANGED <<gui, pi_model, preview_process, preview_running, form, pc, call,
                   launched, result>>

\* An exception that left a slot uncaught ends the application where PyQt5 treats
\* it as fatal (qFatal, the default from PyQt 5.5 on); elsewhere the traceback is
\* printed and the event loop goes on.  The children outlive the application.
app_aborts ==
    /\ pc = "idle" /\ gui \in GUIs /\ result.raised
    /\ pc' = "aborted"
    /\ UNCHANGED <<gui, pi_model, preview_process, preview_running, form, procs, call,
                   launched, result>>

Next ==
    \/ \E m \in {"image", "video", "timelapse"} : SetMode(m)
    \/ \E t \in FramerateTexts : SetFramerate(t)
    \/ SetDuration
    \/ \E spawned \in BOOLEAN : toggle_preview(spawned)
    \/ \E item \in ResolutionItems, spawned \in BOOLEAN : resolution_changed(item, spawned)
    \/ \E spawned \in BOOLEAN : capture(spawned)
    \/ \E code \in {0, 1}, spawned \in BOOLEAN : capture_return(code, spawned)
    \/ merge_exits
    \/ preview_exits
    \/ app_aborts

Spec == Init /\ [][Next]_vars

\* ------------------------------------------------------------- library use

\* A script calls the Microscope methods directly, with any arguments.
Keys == {<<"0">>, <<"2">>}

\* The framerate a script passes to record_video: None (written <<>>) or a text; the
\* other capture methods take none.
ScriptFramerates(mode) ==
    IF mode = "video" THEN { <<>>, <<"6", "0", ".", "5">> } ELSE { <<>> }

InitLib == gui \in GUIs \cup {"script"} /\ InitCommon

\* microscope.start_preview(res_key); '0' is the parameter's default.
script_start_preview(res_key, spawned) ==
    /\ pc = "idle" /\ gui = "script"
    /\ Cardinality(procs) < MaxProcs
    /\ \E r \in {start_preview(res_key, spawned, preview_process, procs)} :
           /\ preview_process' = r.preview_process
           /\ procs' = r.procs
           /\ launched' = r.launched
           /\ result' = Report(gui, "start_preview", r.error, -1, 0)
    /\ UNCHANGED <<gui, pi_model, preview_running, form, pc, call>>

\* microscope.stop_preview()
script_stop_preview ==
    /\ pc = "idle" /\ gui = "script"
    /\ \E s \in {stop_preview(preview_process, procs)} :
           /\ preview_process' = s.preview_process
           /\ procs' = s.procs
           /\ launched' = <<>>
           /\ result' = Report(gui, "stop_preview", NoError, -1, s.signals)
    /\ UNCHANGED <<gui, pi_model, preview_running, form, pc, call>>

\* microscope.capture_image / capture_timelapse / record_video called directly.
script_capture(mode, res_key, framerate_text, spawned) ==
    /\ pc = "idle" /\ gui = "script"
    /\ Cardinality(procs) < MaxProcs
    /\ LET req == [error |-> NoError, mode |-> mode, resolution |-> res_key,
                   framerate |-> [none |-> framerate_text = <<>>,
                                  text |-> framerate_text],
                   duration |-> DefaultDuration, filename |-> filename_edit]
       IN  RunMethod(dispatch(pi_model, req), mode, procs, spawned, 0)
    /\ UNCHANGED <<gui, pi_model, preview_process, preview_running, form>>

NextLib ==
    \/ Next
    \/ \E k \in Keys, spawned \in BOOLEAN : script_start_preview(k, spawned)
    \/ script_stop_preview
    \/ \E mode \in {"image", "video", "timelapse"}, k \in Keys, spawned \in BOOLEAN :
          \E t \in ScriptFramerates(mode) : script_capture(mode, k, t, spawned)

SpecLib == InitLib /\ [][NextLib]_vars

TypeOK ==
    /\ gui \in GUIs \cup {"script"}
    /\ pc \in {"idle", "tool_wait", "aborted"}
    /\ preview_running \in BOOLEAN
    /\ preview_process \in 0..MaxProcs
    /\ Cardinality(procs) <= MaxProcs
    /\ \A p \in procs : p.state \in {"running", "zombie"}

\* ------------------------------------------------------------- properties

PreviewTool == <<"rpicam-hello">>
CaptureTools == {<<"rpicam-still">>, <<"rpicam-vid">>}
MergeTool == <<"mkvmerge">>

LivePreviews(P) == {p \in P : Tool(p) = PreviewTool /\ Alive(p)}
LiveCaptures(P) == {p \in P : Tool(p) \in CaptureTools /\ Alive(p)}
LiveMerges(P)   == {p \in P : Tool(p) = MergeTool /\ Alive(p)}

\* The argument that follows option opt in cmd.
ArgAfter(cmd, opt) == cmd[(CHOOSE i \in 1..Len(cmd) : cmd[i] = opt) + 1]
HasArg(cmd, opt) == \E i \in 1..Len(cmd) : cmd[i] = opt

CaptureStep == \E spawned \in BOOLEAN : capture(spawned)
CaptureReturnStep == \E code \in {0, 1}, spawned \in BOOLEAN : capture_return(code, spawned)

\* The last handler was capture and it has returned.
CaptureReturned == pc = "idle" /\ result.handler = "capture"

\* C1: a front end's capture stops the preview before it runs a capture tool: no
\* preview process is alive while a capture tool is, and a capture step that starts
\* a tool from a state with a live preview has signalled that preview and left no
\* preview process behind.
C1_NoPreviewDuringCapture ==
    /\ [](LivePreviews(procs) = {} \/ LiveCaptures(procs) = {})
    /\ [][(pc = "idle" /\ pc' = "tool_wait" /\ CaptureStep) =>
            /\ \A p \in procs' : Tool(p) # PreviewTool
            /\ preview_process' = 0
            /\ (LivePreviews(procs) # {} => result'.signals = 1)]_vars

\* A capture tool is running in a capture that found a live preview and stopped it.
C1_Witness ==
    pc = "tool_wait" /\ result.signals = 1 /\ LiveCaptures(procs) # {}

StopPreviewStep ==
    /\ pc = "idle"
    /\ IF gui = "script" THEN script_stop_preview
       ELSE preview_running /\ \E spawned \in BOOLEAN : toggle_preview(spawned)

\* C2: stop_preview leaves the controller without a handle and without the process
\* the handle named, and raises nothing; called without a handle it changes no
\* process and sends no signal.
C2_StopPreviewIdle ==
    [][StopPreviewStep =>
         /\ preview_process' = 0
         /\ result'.error = NoError
         /\ (preview_process # 0 => \A p \in procs' : p.pid # preview_process)
         /\ (preview_process = 0 => procs' = procs /\ result'.signals = 0)]_vars

\* A stop_preview that followed a start_preview: the running preview was signalled
\* and is gone.
C2_Witness ==
    /\ result.handler \in {"stop_preview", "toggle_preview"}
    /\ result.signals = 1
    /\ preview_process = 0
    /\ LivePreviews(procs) = {}

\* C3: from the moment capture is entered, and after it returns in whatever way, the
\* controller holds no preview handle and no preview process exists.
C3_IdleAfterCapture ==
    result.handler = "capture" =>
        preview_process = 0 /\ \A p \in procs : Tool(p) # PreviewTool

\* A capture entered while previewing has returned with an error.
C3_Witness ==
    CaptureReturned /\ result.signals = 1 /\ result.error # NoError

\* C4: a capture whose tool exited with a non-zero status ends with an error.
C4_NonZeroExitSurfaced ==
    (CaptureReturned /\ result.exit = 1) => result.error # NoError

NeitherGeneration ==
    ~Contains(pi_model, RaspberryPi4) /\ ~Contains(pi_model, RaspberryPi5)

FormValid ==
    capture_request(gui, mode_combo, resolution_combo, framerate_edit,
                    duration_spin, duration_edit).error = NoError

\* C5: on a model of neither generation (the "Unknown" sentinel included) a video
\* capture runs rpicam-vid with an output path ending in .h264 and without
\* --save-pts (and no merge follows: see after_run).
C5_UnknownModelStillRecords ==
    [][(capture(TRUE) /\ mode_combo = "video" /\ NeitherGeneration /\ FormValid
          /\ IF framerate_edit = <<>> THEN gui = "controlGUI"
             ELSE IsFloat(framerate_edit))
        => /\ pc' = "tool_wait"
           /\ Len(launched') = 1
           /\ launched'[1][1] = <<"rpicam-vid">>
           /\ ~HasArg(launched'[1], <<"--save-pts">>)
           /\ LET out == ArgAfter(launched'[1], <<"-o">>)
              IN  out[Len(out)] = ".h264"]_vars

InvalidInputStep ==
    /\ pc = "idle"
    /\ IF gui = "script"
       THEN \E k \in {key \in Keys : IsNone(key)} :
               \/ \E spawned \in BOOLEAN : script_start_preview(k, spawned)
               \/ \E mode \in {"image", "video", "timelapse"}, spawned \in BOOLEAN :
                     \E t \in ScriptFramerates(mode) :
                         script_capture(mode, k, t, spawned)
       ELSE ~FormValid /\ CaptureStep

\* C6: start_preview or a capture method called with a key that is no preset, and a
\* front end's capture with a duration that does not parse, spawn nothing and end
\* with an error.
C6_InvalidInputSpawnsNothing ==
    [][InvalidInputStep =>
         /\ launched' = <<>>
         /\ procs' \subseteq procs
         /\ pc' = "idle"
         /\ result'.error # NoError]_vars

\* start_preview was called with a key that is no preset.
C6_Witness ==
    /\ result.handler = "start_preview"
    /\ result.error = "TypeError"
    /\ launched = <<>>

SelectedMaxFps == valid_resolutions[Split(resolution_combo, ":")[1]].max_fps

\* C7: a front end's video capture (on a model with a video command, every spawn
\* succeeding) passes rpicam-vid max_fps when the framerate field is empty or holds
\* more than max_fps, and the field's text when it holds at most max_fps.
C7_FramerateClamped ==
    [][(capture(TRUE) /\ mode_combo = "video" /\ ~NeitherGeneration /\ FormValid
          /\ (framerate_edit = <<>> \/ IsFloat(framerate_edit)))
        => /\ pc' = "tool_wait"
           /\ Len(launched') = 1
           /\ LET fps == ArgAfter(launched'[1], <<"--framerate">>)
              IN  IF framerate_edit = <<>> THEN FloatOf(fps) = SelectedMaxFps
                  ELSE IF FloatOf(framerate_edit) > SelectedMaxFps
                  THEN FloatOf(fps) = SelectedMaxFps
                  ELSE fps = framerate_edit]_vars

\* C8: a capture whose tool exited with a non-zero status has launched no mkvmerge.
C8_NoMergeAfterFailedVideo ==
    (CaptureReturned /\ result.exit = 1) =>
        \A i \in 1..Len(launched) : launched[i][1] # MergeTool

\* C9: a capture whose request was valid and whose tool exited with status 0 ends
\* without an error (other than a merge tool that could not be spawned).
C9_SuccessfulToolNoError ==
    (CaptureReturned /\ result.exit = 0) =>
        result.error \in {NoError, "FileNotFoundError"}

NewMerges == {p \in procs' : Tool(p) = MergeTool} \ procs

\* C10: a mkvmerge process appears only in the step in which subprocess.run of
\* rpicam-vid returns on a Raspberry Pi 4, when no rpicam-vid process is left; and
\* such a return whose Popen succeeds ends the handler with the controller idle and
\* the new mkvmerge still running.
C10_MergeAfterVideoNotAwaited ==
    /\ [][NewMerges # {} =>
            /\ pc = "tool_wait" /\ call.mode = "video"
            /\ Contains(pi_model, RaspberryPi4)
            /\ \A p \in procs' : Tool(p) # <<"rpicam-vid">>]_vars
    /\ [][(pc = "tool_wait" /\ call.mode = "video" /\ Contains(pi_model, RaspberryPi4)
             /\ \E code \in {0, 1} : capture_return(code, TRUE))
          => /\ pc' = "idle" /\ preview_process' = 0
             /\ \E p \in NewMerges : Alive(p)]_vars

\* capture has returned, the controller is idle and a mkvmerge is still running.
C10_Witness ==
    CaptureReturned /\ preview_process = 0 /\ LiveMerges(procs) # {}

\* The preview process start_preview launches for a resolution_combo item.
PreviewFor(item, P) ==
    {p \in P : /\ Alive(p)
               /\ p.cmd = start_preview_cmd(valid_resolutions[Split(item, ":")[1]])}

\* C11: a resolution change made while the controller holds a preview handle ends,
\* when the new preview can be spawned, with the old preview process gone and the
\* handle naming a running preview of the new resolution, the only process the
\* handler launched; made while the controller holds no handle it launches nothing
\* and leaves the controller without a handle.
C11_ResolutionChangeRestarts ==
    [][\A item \in ResolutionItems, spawned \in BOOLEAN :
         (pc = "idle" /\ resolution_combo' = item /\ item # resolution_combo
            /\ resolution_changed(item, spawned))
         => IF preview_process = 0
            THEN launched' = <<>> /\ preview_process' = 0 /\ procs' = procs
            ELSE /\ \A p \in procs : p.pid = preview_process => p \notin procs'
                 /\ spawned =>
                      /\ Len(launched') = 1
                      /\ preview_process' # 0
                      /\ \E p \in PreviewFor(item, procs') : p.pid = preview_process'
                      /\ LivePreviews(procs') \subseteq PreviewFor(item, procs')]_vars

\* C12: whenever no front-end handler is running, preview_running is true exactly
\* when the controller holds a preview process handle.
C12_FlagMatchesHandle ==
    pc = "idle" => (preview_running <=> preview_process # 0)

AllPreviews(P) == {p \in P : Tool(p) = PreviewTool}

\* C13: under the front ends' events at most one preview process exists, and it is
\* the one the controller's handle names: none runs without a handle to it.
C13_OnePreviewWithHandle ==
    /\ Cardinality(AllPreviews(procs)) <= 1
    /\ \A p \in AllPreviews(procs) : p.pid = preview_process

\* A resolution change has stopped a running preview and started the next one, which
\* the handle names.
C13_Witness ==
    /\ result.handler = "resolution_changed"
    /\ result.signals = 1
    /\ \E p \in LivePreviews(procs) : p.pid = preview_process

====
